---------------------------- MODULE Spec2Model ----------------------------
(***************************************************************************)
(* A model of the email-enrichment waterfall of gmapsscraper:              *)
(* EmailEnricher.enrich_business (backend/core/enricher.py) with its       *)
(* validator, pattern generator, domain-search adapter and confidence      *)
(* scorer.  One behaviour is one call of enrich_business on one business   *)
(* record under one configuration.                                         *)
(*                                                                         *)
(* Strings are sequences of chunks (a chunk is a run of characters such as *)
(* "info", "@", "." or "acmelaw").  Python's substring test is modelled by *)
(* contiguous containment of chunk sequences; the strings drawn below are  *)
(* cut so that the two coincide for every pattern the code looks for.      *)
(***************************************************************************)
EXTENDS Integers, Sequences, FiniteSets, TLC

---------------------------------------------------------------------------
(* Bounds of the model.                                                    *)

\* enrichment.max_emails_per_business ranges over 0..MaxCap
MaxCap == 3

---------------------------------------------------------------------------
(* Strings.                                                                *)

\* Python's None, and a key that a dict does not hold.
None == "None"
Absent == "<absent>"

\* str.lower() on one chunk.
Lower(tok) ==
    CASE tok = "Acme" -> "acme"
      [] tok = "Law" -> "law"
      [] tok = "Info" -> "info"
      [] tok = "AcmeLaw" -> "acmelaw"
      [] tok = "AT" -> "at"
      [] tok = "DOT" -> "dot"
      [] tok = "Example" -> "example"
      [] tok = "COM" -> "com"
      [] OTHER -> tok

\* str.lower()
LowerStr(s) == [i \in 1..Len(s) |-> Lower(s[i])]

\* Chunks made of letters only, [A-Za-z]+.
AlphaChunks ==
    {"info", "contact", "hello", "admin", "support", "sales", "office",
     "jane", "noreply", "test", "fake", "user", "old", "acme", "law",
     "acmelaw", "gmail", "example", "com", "www", "https", "image",
     "Acme", "Law", "Info", "AcmeLaw", "at", "dot", "AT", "DOT",
     "mail", "placeholder", "domain", "company", "yoursite", "photo",
     "picture", "co", "uk", "name", "label", "c", "Example", "COM"}

\* Number of characters of a chunk.
CharLen(tok) ==
    CASE tok \in {"@", ".", " ", "/", "-", "+", "_", "%", ",", ";", "!", "?"} -> 1
      [] tok \in {"c"} -> 1
      [] tok \in {"at", "AT", "co", "uk"} -> 2
      [] tok \in {"dot", "DOT"} -> 3
      [] tok \in {"://", "com", "www", "old", "law", "Law", "COM"} -> 3
      [] tok \in {"info", "jane", "test", "fake", "user", "acme", "Acme", "Info",
                  "mail", "name"} -> 4
      [] tok \in {"hello", "admin", "sales", "gmail", "https", "image", "photo",
                  "label"} -> 5
      [] tok \in {"office", "domain"} -> 6
      [] tok \in {"contact", "support", "noreply", "acmelaw", "example", "AcmeLaw",
                  "company", "picture", "Example"} -> 7
      [] tok \in {"yoursite"} -> 8
      [] tok \in {"placeholder"} -> 11
      [] OTHER -> 8

\* len(s)
RECURSIVE StrLen(_)
StrLen(s) == IF s = <<>> THEN 0 ELSE CharLen(Head(s)) + StrLen(Tail(s))

\* pat in s
Contains(s, pat) ==
    \E i \in 1..(Len(s) - Len(pat) + 1) : \A k \in 1..Len(pat) : s[i + k - 1] = pat[k]

\* s.startswith(pat)
StartsWith(s, pat) == Len(s) >= Len(pat) /\ \A k \in 1..Len(pat) : s[k] = pat[k]

\* str.strip(): leading and trailing whitespace removed.
RECURSIVE LStrip(_)
LStrip(s) == IF s # <<>> /\ Head(s) = " " THEN LStrip(Tail(s)) ELSE s

RECURSIVE RStrip(_)
RStrip(s) ==
    IF s # <<>> /\ s[Len(s)] = " " THEN RStrip(SubSeq(s, 1, Len(s) - 1)) ELSE s

Strip(s) == RStrip(LStrip(s))

\* Positions of a chunk in a string.
IndexOf(s, tok) ==
    IF \E i \in 1..Len(s) : s[i] = tok
    THEN CHOOSE i \in 1..Len(s) : s[i] = tok /\ \A j \in 1..(i - 1) : s[j] # tok
    ELSE 0

\* urlparse(url).netloc: what follows "scheme://" up to the next "/"; the
\* empty string when the url has no "//" (a bare "acmelaw.com" is all path).
Netloc(url) ==
    IF Len(url) >= 2 /\ url[1] \in {"http", "https"} /\ url[2] = "://"
    THEN LET rest == SubSeq(url, 3, Len(url))
             cut == IndexOf(rest, "/")
         IN  IF cut = 0 THEN rest ELSE SubSeq(rest, 1, cut - 1)
    ELSE <<>>

\* domain = urlparse(website).netloc; if domain.startswith('www.'): domain = domain[4:]
DomainOf(website) ==
    LET domain == Netloc(website)
    IN  IF StartsWith(domain, <<"www", ".">>)
        THEN SubSeq(domain, 3, Len(domain))
        ELSE domain

---------------------------------------------------------------------------
(* The validator: EmailEnricher._validate_email.                           *)

\* Chunks of letters and digits, and the character classes of the pattern
\* ^[a-zA-Z0-9._%+-]+@[a-zA-Z0-9.-]+\.[a-zA-Z]{2,}$
AlnumChunks == AlphaChunks \cup {"2024"}
LocalChunks == AlnumChunks \cup {".", "_", "%", "+", "-"}
DomainChunks == AlnumChunks \cup {".", "-"}

\* re.match(pattern, email): a non-empty local part, "@", a non-empty domain
\* part, "." and at least two letters, and nothing else.
MatchesEmailPattern(email) ==
    LET at == IndexOf(email, "@")
        n == Len(email)
    IN  /\ at > 1
        /\ \A i \in 1..(at - 1) : email[i] \in LocalChunks
        /\ n >= at + 3
        /\ \A i \in (at + 1)..(n - 2) : email[i] \in DomainChunks
        /\ email[n - 1] = "."
        /\ email[n] \in AlphaChunks /\ CharLen(email[n]) >= 2

\* The list without its last three entries.
excluded_patternsDomainsOnly ==
    { <<"@", "example", ".">>, <<"@", "test", ".">>, <<"@", "placeholder", ".">>,
      <<"@", "domain", ".">>, <<"@", "company", ".">>, <<"@", "yoursite", ".">> }

\* excluded_patterns, searched with re.IGNORECASE
excluded_patterns ==
    { <<"@", "example", ".">>, <<"@", "test", ".">>, <<"@", "placeholder", ".">>,
      <<"@", "domain", ".">>, <<"@", "company", ".">>, <<"@", "yoursite", ".">>,
      <<"image", "@">>, <<"photo", "@">>, <<"picture", "@">> }

_validate_email(email) ==
    /\ email # <<>>
    /\ StrLen(email) <= 254
    /\ MatchesEmailPattern(email)
    /\ \A excluded \in excluded_patterns : ~Contains(LowerStr(email), excluded)

---------------------------------------------------------------------------
(* The cleaner: EmailEnricher._clean_email.                                *)

\* s.replace(old, new): every occurrence of old, left to right
RECURSIVE Replace(_, _, _)
Replace(s, old, new) ==
    IF s = <<>> THEN <<>>
    ELSE IF StartsWith(s, old)
         THEN new \o Replace(SubSeq(s, Len(old) + 1, Len(s)), old, new)
         ELSE <<Head(s)>> \o Replace(Tail(s), old, new)

\* re.sub(r'[.,;!?]+$', '', email)
RECURSIVE StripTrailingPunctuation(_)
StripTrailingPunctuation(s) ==
    IF s # <<>> /\ s[Len(s)] \in {".", ",", ";", "!", "?"}
    THEN StripTrailingPunctuation(SubSeq(s, 1, Len(s) - 1))
    ELSE s

_clean_email(email) ==
    IF email = <<>> THEN <<>>
    ELSE LET deobfuscated == Replace(Replace(email, <<" ", "at", " ">>, <<"@">>),
                                     <<" ", "dot", " ">>, <<".">>)
         IN  StripTrailingPunctuation(LowerStr(Strip(deobfuscated)))

---------------------------------------------------------------------------
(* The pattern generator: EmailEnricher._generate_email_patterns.          *)

\* clean_name = re.sub(r'[^\w\s]', '', business_name.lower());
\* name_parts = clean_name.split(): the words of the lower-cased name.  Every
\* name drawn below separates its words by whitespace.
IsWordChunk(tok) == tok \in AlnumChunks
NameParts(business_name) == SelectSeq(LowerStr(business_name), IsWordChunk)

\* the role-based local parts, in the order the code lists them
common_patterns == <<"info", "contact", "hello", "admin", "support", "sales", "office">>

\* Every first word drawn below has at most 10 characters, so that
\* name_parts[0][:10] is the word itself.
_generate_email_patterns(website, business_name) ==
    LET domain == DomainOf(website)
        common == [i \in 1..Len(common_patterns) |-> <<common_patterns[i], "@">> \o domain]
        name_parts == NameParts(business_name)
        named == IF business_name # <<>> /\ name_parts # <<>>
                 THEN << <<name_parts[1], "@">> \o domain,
                         <<name_parts[1], ".", "info", "@">> \o domain >>
                 ELSE <<>>
    IN  SelectSeq(common \o named, _validate_email)

---------------------------------------------------------------------------
(* The confidence scorer: EmailEnricher._calculate_email_confidence.       *)
(*                                                                         *)
(* Confidence values are IEEE-754 doubles.  Fl(t, s) names a double near   *)
(* t/10: s = 0 is the double nearest to t/10 (what the literal 0.7 is),    *)
(* s = -1 the value the scorer reaches just below it, s = 1 and s = 2 the  *)
(* values it reaches just above it (0.30000000000000004 is Fl(3, 1),       *)
(* 0.3000000000000001 is Fl(3, 2)).  The codes are ordered as the doubles. *)

Fl(t, s) == 4 * t + s

\* x + d/10 where double addition does not give the double nearest to the
\* exact sum: <<x, d, x + d/10>>.
RoundedSums ==
    { <<Fl(1, 0), -3, Fl(-2, 1)>>,  <<Fl(2, 0), -3, Fl(-1, 1)>>,
      <<Fl(2, 0), 1, Fl(3, 1)>>,    <<Fl(3, 1), -3, Fl(0, 1)>>,
      <<Fl(4, 0), -3, Fl(1, 1)>>,   <<Fl(4, 0), 2, Fl(6, 1)>>,
      <<Fl(6, 1), -3, Fl(3, 2)>>,   <<Fl(6, 1), 1, Fl(7, 1)>>,
      <<Fl(7, 0), -3, Fl(4, -1)>>,  <<Fl(7, 0), 1, Fl(8, -1)>>,
      <<Fl(7, 0), 2, Fl(9, -1)>>,   <<Fl(7, 1), -3, Fl(4, 1)>>,
      <<Fl(8, -1), -3, Fl(5, -1)>>, <<Fl(9, -1), -3, Fl(6, -1)>>,
      <<Fl(9, -1), 1, Fl(10, -1)>>, <<Fl(9, 0), -3, Fl(6, 1)>>,
      <<Fl(10, -1), -3, Fl(7, 0)>>, <<Fl(11, 0), 1, Fl(12, 1)>>,
      <<Fl(12, 1), -3, Fl(9, 1)>>,  <<Fl(13, 0), 1, Fl(14, 1)>>,
      <<Fl(14, 1), -3, Fl(11, 0)>>, <<Fl(16, 0), 1, Fl(17, 1)>>,
      <<Fl(17, 1), -3, Fl(14, 1)>>, <<Fl(18, 0), 1, Fl(19, 1)>>,
      <<Fl(19, 1), -3, Fl(16, 0)>>, <<Fl(22, 0), -3, Fl(19, 1)>>,
      <<Fl(22, 0), 1, Fl(23, 1)>>,  <<Fl(23, 1), -3, Fl(20, 1)>> }

\* confidence += d/10 in double arithmetic
FloatAdd(x, d) ==
    IF \E r \in RoundedSums : r[1] = x /\ r[2] = d
    THEN (CHOOSE r \in RoundedSums : r[1] = x /\ r[2] = d)[3]
    ELSE x + Fl(d, 0)

\* A faulty variant of FloatMin: the upper clamp is missing.
FloatMinIgnored(x, y) == x

FloatMin(x, y) == IF x <= y THEN x ELSE y
FloatMax(x, y) == IF x >= y THEN x ELSE y

\* x in list
InSeq(x, seq) == \E i \in 1..Len(seq) : seq[i] = x

professional_patterns ==
    { <<"info", "@">>, <<"contact", "@">>, <<"hello", "@">>, <<"admin", "@">>,
      <<"office", "@">> }

suspicious_patterns ==
    { <<"noreply", "@">>, <<"no", "-", "reply", "@">>, <<"test", "@">>,
      <<"fake", "@">>, <<"admin", "@", "gmail", ".", "com">> }

\* Base confidence by method (lines 684-689)
MethodBase(methods_used) ==
    LET c1 == IF InSeq("website_scraping", methods_used) THEN FloatAdd(Fl(0, 0), 7) ELSE Fl(0, 0)
        c2 == IF InSeq("hunter_io", methods_used) THEN FloatAdd(c1, 9) ELSE c1
    IN  IF InSeq("pattern_generation", methods_used) THEN FloatAdd(c2, 4) ELSE c2

\* Domain matching bonus (lines 692-697)
DomainBonus(confidence, email, website) ==
    IF website # <<>> /\ Contains(LowerStr(email), LowerStr(DomainOf(website)))
    THEN FloatAdd(confidence, 2)
    ELSE confidence

\* Professional email patterns bonus (lines 700-702)
ProfessionalBonus(confidence, email) ==
    IF \E pattern \in professional_patterns : Contains(LowerStr(email), pattern)
    THEN FloatAdd(confidence, 1)
    ELSE confidence

\* Penalty for generic/suspicious patterns (lines 705-707)
SuspiciousPenalty(confidence, email) ==
    IF \E pattern \in suspicious_patterns : Contains(LowerStr(email), pattern)
    THEN FloatAdd(confidence, -3)
    ELSE confidence

_calculate_email_confidence(email, website, business_name, methods_used) ==
    LET confidence ==
            SuspiciousPenalty(
                ProfessionalBonus(
                    DomainBonus(MethodBase(methods_used), email, website), email), email)
    IN  FloatMin(FloatMax(confidence, Fl(0, 0)), Fl(10, 0))

---------------------------------------------------------------------------
(* The domain-search adapter: EmailEnricher._search_hunter_io.             *)

\* self.hunter_cost_per_email = 0.049, in thousandths of a dollar
hunter_cost_per_email == 49

\* One db.log_api_call(provider, endpoint, cost, success=...) call
ApiCall(cost, success) ==
    [provider |-> "hunter_io", endpoint |-> "domain-search", cost |-> cost,
     success |-> success]

\* f"{first_name} {last_name}".strip()
FullName(email_data) == Strip(email_data.first_name \o <<" ">> \o email_data.last_name)

\* The loop over data['data']['emails'] (lines 527-537): the validated
\* values, and the names of the entries that carry one.
RECURSIVE HunterEmails(_)
HunterEmails(entries) ==
    IF entries = <<>> THEN <<>>
    ELSE LET email_data == Head(entries)
         IN  (IF email_data.value # <<>> /\ _validate_email(email_data.value)
              THEN <<email_data.value>> ELSE <<>>) \o HunterEmails(Tail(entries))

RECURSIVE HunterNames(_)
HunterNames(entries) ==
    IF entries = <<>> THEN <<>>
    ELSE LET email_data == Head(entries)
         IN  (IF /\ email_data.value # <<>> /\ _validate_email(email_data.value)
                 /\ (email_data.first_name # <<>> \/ email_data.last_name # <<>>)
              THEN <<FullName(email_data)>> ELSE <<>>) \o HunterNames(Tail(entries))

\* A faulty variant of HunterLogCalls: a failed request is not logged.
HunterLogCallsOnSuccessOnly(response, emails) ==
    IF response.kind = "ok"
    THEN <<ApiCall(hunter_cost_per_email * Len(emails), TRUE)>>
    ELSE <<>>

\* The cost-log calls of one invocation whose request was answered by
\* `response` (lines 539-555).  db.log_api_call swallows its own errors
\* (database.py lines 129-136), so no call is repeated by the except branch.
HunterLogCalls(response, emails) ==
    IF response.kind = "ok"
    THEN <<ApiCall(hunter_cost_per_email * Len(emails), TRUE)>>
    ELSE <<ApiCall(0, FALSE)>>

\* What one invocation returns and logs.  response.kind is "ok" (status 200
\* and a parsed body), "status" (any other status code) or "exception" (the
\* request or response.json() raised).
_search_hunter_io(hunter_api_key, response) ==
    IF ~hunter_api_key
    THEN [emails |-> <<>>, contact_names |-> <<>>, logged |-> <<>>]
    ELSE LET emails == IF response.kind = "ok" THEN HunterEmails(response.data) ELSE <<>>
             names == IF response.kind = "ok" THEN HunterNames(response.data) ELSE <<>>
         IN  [emails |-> emails, contact_names |-> names,
              logged |-> HunterLogCalls(response, emails)]

---------------------------------------------------------------------------
(* Inputs: business records, configurations, and what the adapters' network *)
(* calls can answer.                                                        *)

Jane == <<"jane", "@", "acmelaw", ".", "com">>
Info == <<"info", "@", "acmelaw", ".", "com">>
InfoMixed == <<"Info", "@", "acmelaw", ".", "com">>
NoReply == <<"noreply", "@", "gmail", ".", "com">>
UserExample == <<"user", "@", "example", ".", "com">>
OldEmail == <<"old", "@", "acmelaw", ".", "com">>

JaneRoe == <<"Jane", " ", "Roe">>
JohnSmith == <<"John", " ", "Smith">>

AcmeLaw == <<"Acme", " ", "Law">>

\* The records enrich_business is called on.
Businesses ==
    { [name |-> AcmeLaw, website |-> <<"https", "://", "www", ".", "acmelaw", ".", "com">>],
      [name |-> AcmeLaw, website |-> <<"acmelaw", ".", "com">>],
      [name |-> <<>>, website |-> <<"https", "://", "acmelaw", ".", "com">>,
       email |-> OldEmail],
      [name |-> AcmeLaw, website |-> <<" ">>] }

\* Values of enrichment.email_confidence_threshold: 0.7 (the default) and 0.9
Thresholds == {Fl(7, 0), Fl(9, 0)}

\* config.get(key, default) for the keys __init__ and enrich_business read
Configs ==
    [ enable_website_scraping : BOOLEAN,
      enable_curl_cffi : BOOLEAN,
      hunter_enabled : BOOLEAN,
      hunter_api_key : BOOLEAN,
      enable_pattern_generation : BOOLEAN,
      max_emails_per_business : 0..MaxCap,
      email_confidence_threshold : Thresholds ]

\* Lists without repetition of at most two elements of a pool.
ListsOf(pool) ==
    {<<>>} \cup {<<a>> : a \in pool}
           \cup {<<a, b>> : <<a, b>> \in {t \in pool \X pool : t[1] # t[2]}}

Raise == [kind |-> "raise", emails |-> <<>>, names |-> <<>>]
Return(emails, names) == [kind |-> "return", emails |-> emails, names |-> names]

\* What _scrape_website_for_emails can return (or raise) for a website.
WebsiteOutcomes ==
    {Raise, Return(<<Jane>>, <<JaneRoe>>), Return(<<>>, <<JaneRoe>>)}
        \cup {Return(es, <<>>) : es \in ListsOf({Jane, NoReply})}

\* What CurlCffiScraper.scrape_website_for_emails can return (or raise).
CurlOutcomes ==
    {Raise, Return(<<Info>>, <<JohnSmith>>)}
        \cup {Return(es, <<>>) : es \in ListsOf({Info, UserExample})}

\* What the request of _search_hunter_io can be answered with.
HunterEntries ==
    { [value |-> Jane, first_name |-> <<"Jane">>, last_name |-> <<"Roe">>],
      [value |-> InfoMixed, first_name |-> <<>>, last_name |-> <<>>],
      [value |-> UserExample, first_name |-> <<"John">>, last_name |-> <<>>] }

HunterResponses ==
    { [kind |-> "exception", data |-> <<>>], [kind |-> "status", data |-> <<>>] }
        \cup { [kind |-> "ok", data |-> d] : d \in ListsOf(HunterEntries) }

NoResponse == [kind |-> "none", data |-> <<>>]

\* No helper is called directly.
NoCall == [fn |-> "none"]

---------------------------------------------------------------------------
(* State of one enrich_business call.                                      *)

VARIABLES
    config,              \* the configuration the EmailEnricher was built with
    business_data,       \* the record passed in (a dict: key -> value)
    pc,                  \* the block of enrich_business that runs next
    enrichment_results,  \* the attempt's accumulators (lines 92-100)
    enriched_data,       \* business_data.copy(), then the output fields
    exception,           \* the exception that left enrich_business, or None
    api_calls,           \* the db.log_api_call calls made so far
    log_entries,         \* the analytics entries _log_enrichment_attempt wrote
    adapter_outcome,     \* per method: "not_invoked", "raised" or "returned"
    hunter_response,     \* what the domain-search request was answered with
    returned_names,      \* per method: the contact names its adapter returned
    call                 \* a direct call of one helper: its arguments and result

\* State of the enhanced scraper shared by the enrichment threads
\* (CurlCffiScraper and ProxyManager) and of the threads that use it.
VARIABLES
    responses,           \* what the website answers to each request
    _sessions,           \* CurlCffiScraper._sessions: session key -> Session
    _session_uses,       \* CurlCffiScraper._session_uses: session key -> count
    current_index,       \* ProxyManager.current_index
    sessions,            \* the Session objects created so far
    worker,              \* per thread: where it is in scrape_website_for_emails
    accesses             \* which thread read or wrote which shared variable

pool_vars == <<responses, _sessions, _session_uses, current_index, sessions, worker, accesses>>

\* State of the enrichment phase of one run_background_search job.
VARIABLES
    processed_businesses, \* the businesses of the job, scraped and stored
    futures,              \* per business: the state of its enrichment future
    handled,              \* the futures as_completed has yielded, in order
    enriched_count,       \* the businesses found to have an email so far
    emitted               \* the websocket messages sent so far

job_vars == <<processed_businesses, futures, handled, enriched_count, emitted>>

\* State of one GoogleMapsScraper.search call.
VARIABLES
    max_results,         \* the argument of search
    page,                \* the page search asks for next
    all_results,         \* the businesses collected: each the page it came from
    search_pc,           \* where search is
    attempt,             \* the loop variable of _make_request
    http_log,            \* what the requests of the current _make_request got
    response_data,       \* what _make_request returned
    pages_requested,     \* the pages _make_request was called for, in order
    final_results        \* what search returned

search_vars == <<max_results, page, all_results, search_pc, attempt, http_log,
                 response_data, pages_requested, final_results>>

\* The state outside the EmailEnricher call.
service_vars == <<pool_vars, job_vars, search_vars>>

vars == <<config, business_data, pc, enrichment_results, enriched_data,
          exception, api_calls, log_entries, adapter_outcome, hunter_response,
          returned_names, call, service_vars>>

\* No thread pool is running.
NoPool ==
    /\ responses = <<>>
    /\ _sessions = <<>>
    /\ _session_uses = <<>>
    /\ current_index = 0
    /\ sessions = <<>>
    /\ worker = <<>>
    /\ accesses = {}

\* No background job is running.
NoJob ==
    /\ processed_businesses = <<>>
    /\ futures = <<>>
    /\ handled = <<>>
    /\ enriched_count = 0
    /\ emitted = <<>>

\* No map search is running.
NoSearch ==
    /\ max_results = 0
    /\ page = 0
    /\ all_results = <<>>
    /\ search_pc = "idle"
    /\ attempt = 0
    /\ http_log = <<>>
    /\ response_data = [kind |-> "None", truthy |-> FALSE, businesses |-> 0, parsed |-> 0]
    /\ pages_requested = <<>>
    /\ final_results = <<>>

\* The methods in the order of the four blocks of enrich_business.
Methods == <<"website_scraping", "curl_cffi", "hunter_io", "pattern_generation">>

\* dict.get(key, default) and dict[key] = value
Get(d, key, default) == IF key \in DOMAIN d THEN d[key] ELSE default
Put(d, key, value) == (key :> value) @@ d

\* A faulty variant of website: the string is not stripped.
websiteUnstripped == Get(business_data, "website", <<>>)

\* website = business_data.get('website', '').strip()  (lines 102-103)
website == Strip(Get(business_data, "website", <<>>))
business_name == Strip(Get(business_data, "name", <<>>))

\* self.hunter_enabled = config.get('apis.hunter.enabled') and self.hunter_api_key
hunter_enabled == config.hunter_enabled /\ config.hunter_api_key
use_curl_cffi == config.enable_curl_cffi

Init ==
    /\ config \in Configs
    /\ business_data \in Businesses
    /\ pc = "website_scraping"
    /\ enrichment_results =
           [ emails_found |-> <<>>, contact_names |-> <<>>, methods_tried |-> <<>>,
             successful_method |-> None, method_results |-> <<>>, success |-> FALSE ]
    /\ enriched_data = business_data
    /\ exception = None
    /\ api_calls = <<>>
    /\ log_entries = <<>>
    /\ adapter_outcome = [m \in {Methods[i] : i \in 1..Len(Methods)} |-> "not_invoked"]
    /\ hunter_response = NoResponse
    /\ returned_names = [m \in {Methods[i] : i \in 1..Len(Methods)} |-> <<>>]
    /\ call = NoCall
    /\ NoPool /\ NoJob /\ NoSearch

---------------------------------------------------------------------------
(* The waterfall: the four method blocks (lines 105-180).                  *)

\* A faulty variant of NextBlock: the paid search runs before the enhanced scraper.
NextBlockSwapped(m) ==
    CASE m = "website_scraping" -> "hunter_io"
      [] m = "hunter_io" -> "curl_cffi"
      [] m = "curl_cffi" -> "pattern_generation"
      [] m = "pattern_generation" -> "score"

\* The block that follows a method's block.
NextBlock(m) ==
    CASE m = "website_scraping" -> "curl_cffi"
      [] m = "curl_cffi" -> "hunter_io"
      [] m = "hunter_io" -> "pattern_generation"
      [] m = "pattern_generation" -> "score"

\* A faulty variant of CapOpen: the cap is not looked at.
CapOpenIgnored(res) == TRUE

\* len(enrichment_results['emails_found']) < self.max_emails_per_business
CapOpen(res) == Len(res.emails_found) < config.max_emails_per_business

\* enrichment_results['methods_tried'].append(m)
Tried(res, m) == [res EXCEPT !.methods_tried = Append(@, m)]

\* A faulty variant of Merge: successful_method is overwritten by each
\* method that contributes.
MergeOverwriting(res, m, emails, contacts) ==
    LET counted == [res EXCEPT !.method_results = (m :> Len(emails)) @@ @]
    IN  IF emails # <<>>
        THEN [counted EXCEPT !.emails_found = @ \o emails,
                             !.contact_names = @ \o contacts,
                             !.successful_method = m]
        ELSE counted

\* method_results[m] = len(emails); if emails: extend the accumulators and
\* set successful_method if it is not set (lines 112-117 and the like).
Merge(res, m, emails, contacts) ==
    LET counted == [res EXCEPT !.method_results = (m :> Len(emails)) @@ @]
    IN  IF emails # <<>>
        THEN [counted EXCEPT !.emails_found = @ \o emails,
                             !.contact_names = @ \o contacts,
                             !.successful_method = IF @ = None THEN m ELSE @]
        ELSE counted

\* A faulty variant of Catches: the paid search's block has no handler.
CatchesAllButHunter(m) == m # "hunter_io"

\* except Exception as e: logger.warning(...)  -- each block catches what its
\* adapter raises.
Catches(m) == TRUE

\* One block whose condition held: the method is recorded as tried, its
\* adapter is called and either raises or returns `out`.
RunBlock(m, out) ==
    IF out.kind = "raise"
    THEN /\ enrichment_results' = Tried(enrichment_results, m)
         /\ adapter_outcome' = [adapter_outcome EXCEPT ![m] = "raised"]
         /\ returned_names' = returned_names
         /\ IF Catches(m)
            THEN pc' = NextBlock(m) /\ exception' = exception
            ELSE pc' = "done" /\ exception' = "Exception"
    ELSE /\ enrichment_results' = Merge(Tried(enrichment_results, m), m, out.emails, out.names)
         /\ adapter_outcome' = [adapter_outcome EXCEPT ![m] = "returned"]
         /\ returned_names' = [returned_names EXCEPT ![m] = out.names]
         /\ pc' = NextBlock(m)
         /\ exception' = exception

\* One block whose condition did not hold.
SkipBlock(m) ==
    /\ pc' = NextBlock(m)
    /\ UNCHANGED <<enrichment_results, adapter_outcome, exception, returned_names>>

\* Method 1: Website Scraping (lines 105-121)
WebsiteScraping ==
    /\ pc = "website_scraping"
    /\ IF config.enable_website_scraping /\ website # <<>>
       THEN \E out \in WebsiteOutcomes : RunBlock("website_scraping", out)
       ELSE SkipBlock("website_scraping")
    /\ UNCHANGED <<config, business_data, enriched_data, api_calls, log_entries,
                   hunter_response, call>>
    /\ UNCHANGED service_vars

\* Method 2: curl_cffi Enhanced Scraping (lines 123-141)
CurlCffi ==
    /\ pc = "curl_cffi"
    /\ IF use_curl_cffi /\ CapOpen(enrichment_results) /\ website # <<>>
       THEN \E out \in CurlOutcomes : RunBlock("curl_cffi", out)
       ELSE SkipBlock("curl_cffi")
    /\ UNCHANGED <<config, business_data, enriched_data, api_calls, log_entries,
                   hunter_response, call>>
    /\ UNCHANGED service_vars

\* Method 3: Hunter.io Domain Search (lines 143-161).  The adapter is either
\* replaced by one that raises, or runs and gets `response` from the API.
HunterIo ==
    /\ pc = "hunter_io"
    /\ IF hunter_enabled /\ CapOpen(enrichment_results) /\ website # <<>>
       THEN \/ /\ RunBlock("hunter_io", Raise)
               /\ UNCHANGED <<api_calls, hunter_response>>
            \/ \E response \in HunterResponses :
                   LET got == _search_hunter_io(config.hunter_api_key, response)
                   IN  /\ RunBlock("hunter_io", Return(got.emails, got.contact_names))
                       /\ api_calls' = api_calls \o got.logged
                       /\ hunter_response' = response
       ELSE /\ SkipBlock("hunter_io")
            /\ UNCHANGED <<api_calls, hunter_response>>
    /\ UNCHANGED <<config, business_data, enriched_data, log_entries, call>>
    /\ UNCHANGED service_vars

\* Method 4: Pattern Generation (lines 163-180).  The generator is either
\* replaced by one that raises, or runs.
PatternGeneration ==
    /\ pc = "pattern_generation"
    /\ IF config.enable_pattern_generation /\ CapOpen(enrichment_results) /\ website # <<>>
       THEN \E out \in {Raise, Return(_generate_email_patterns(website, business_name), <<>>)} :
                RunBlock("pattern_generation", out)
       ELSE SkipBlock("pattern_generation")
    /\ UNCHANGED <<config, business_data, enriched_data, api_calls, log_entries,
                   hunter_response, call>>
    /\ UNCHANGED service_vars

---------------------------------------------------------------------------
(* Process and score results, log, return (lines 182-222).                 *)

\* list(set(emails_found)).  A set of strings is iterated in the order of
\* the strings' hashes, which Python randomises per process: the order is
\* one of the rotations of a fixed listing of the set, or the listing
\* reversed, picked by `seed`.  Every element comes first for some seed.
RECURSIVE Listing(_)
Listing(S) ==
    IF S = {} THEN <<>>
    ELSE LET x == CHOOSE y \in S : TRUE IN <<x>> \o Listing(S \ {x})

Rotate(seq, r) == [i \in 1..Len(seq) |-> seq[((i - 1 + r) % Len(seq)) + 1]]
Reverse(seq) == [i \in 1..Len(seq) |-> seq[Len(seq) + 1 - i]]

HashSeeds(S) == 0..Cardinality(S)

ListOfSet(listing, seed) ==
    LET n == Len(listing)
    IN  IF n = 0 THEN <<>>
        ELSE IF seed < n THEN Rotate(listing, seed)
        ELSE Reverse(listing)

\* A faulty variant of MeetsThreshold: every score passes.
MeetsThresholdIgnored(confidence) == TRUE

\* A faulty variant of MeetsThreshold: the comparison is inverted.
MeetsThresholdInverted(confidence) == confidence <= config.email_confidence_threshold

\* if confidence >= self.confidence_threshold
MeetsThreshold(confidence) == confidence >= config.email_confidence_threshold

\* A faulty variant of ValidEmails: nothing is validated.
ValidEmailsUnvalidated(res) == {res.emails_found[i] : i \in 1..Len(res.emails_found)}

\* set(emails_found), and its members that pass the validator (line 186)
UniqueEmails(res) == {res.emails_found[i] : i \in 1..Len(res.emails_found)}
ValidEmails(res) == {email \in UniqueEmails(res) : _validate_email(email)}

\* The confidence of each valid email (lines 191-193)
Confidence(res) ==
    [email \in ValidEmails(res) |->
        _calculate_email_confidence(email, website, business_name, res.methods_tried)]

\* A faulty variant of ScoredEmails: the valid emails are not filtered by score.
ScoredEmailsUnfiltered(unique_emails, confidence) ==
    LET IsValid(email) == email \in DOMAIN confidence
        valid_emails == SelectSeq(unique_emails, IsValid)
    IN  [i \in 1..Len(valid_emails) |-> <<valid_emails[i], confidence[valid_emails[i]]>>]

\* scored_emails (lines 189-195): the (email, confidence) pairs of the valid
\* emails that reach the threshold, in the order of unique_emails.
ScoredEmails(unique_emails, confidence) ==
    LET Qualifies(email) == email \in DOMAIN confidence /\ MeetsThreshold(confidence[email])
        qualified == SelectSeq(unique_emails, Qualifies)
    IN  [i \in 1..Len(qualified) |-> <<qualified[i], confidence[qualified[i]]>>]

\* scored_emails.sort(key=lambda x: x[1], reverse=True): a stable sort, equal
\* scores keep their order.
InsertByConfidence(sorted, x) ==
    LET k == Cardinality({i \in 1..Len(sorted) : sorted[i][2] >= x[2]})
    IN  SubSeq(sorted, 1, k) \o <<x>> \o SubSeq(sorted, k + 1, Len(sorted))

RECURSIVE SortByConfidence(_)
SortByConfidence(seq) ==
    IF seq = <<>> THEN <<>>
    ELSE InsertByConfidence(SortByConfidence(SubSeq(seq, 1, Len(seq) - 1)), seq[Len(seq)])

\* best_emails = scored_emails[:self.max_emails_per_business]
BestEmails(sorted) ==
    SubSeq(sorted, 1, IF Len(sorted) < config.max_emails_per_business
                      THEN Len(sorted) ELSE config.max_emails_per_business)

\* datetime.now().isoformat()
Now == <<"2024-01-01T00:00:00">>

\* Update enriched data (lines 203-214)
Assemble(data, res, best_emails) ==
    LET primary == Put(Put(Put(Put(data, "email", best_emails[1][1]),
                               "confidence_score", best_emails[1][2]),
                           "enriched_at", Now),
                       "enrichment_method", res.successful_method)
        named == IF res.contact_names # <<>>
                 THEN Put(primary, "contact_name", res.contact_names[1])
                 ELSE primary
    IN  IF Len(best_emails) > 1
        THEN Put(named, "additional_emails",
                 [i \in 1..(Len(best_emails) - 1) |-> best_emails[i + 1][1]])
        ELSE named

\* _log_enrichment_attempt (lines 711-731): the analytics entry
LogEntry(res) ==
    [ business_name |-> Get(business_data, "name", None),
      website |-> Get(business_data, "website", None),
      methods_tried |-> res.methods_tried,
      method_results |-> res.method_results,
      successful_method |-> res.successful_method,
      emails_found_count |-> Len(res.emails_found),
      success |-> res.success ]

\* Lines 182-222.  best_emails[0] raises IndexError when the slice is empty;
\* nothing in enrich_business catches it.  (The values computed once are
\* bound by \E over a singleton.)
ProcessAndReturn ==
    /\ pc = "score"
    /\ pc' = "done"
    /\ \E listing \in {Listing(UniqueEmails(enrichment_results))},
          confidence \in {Confidence(enrichment_results)} :
       \E seed \in HashSeeds(UniqueEmails(enrichment_results)) \cup {0} :
       \E scored_emails \in {ScoredEmails(ListOfSet(listing, seed), confidence)} :
       \E best_emails \in {BestEmails(SortByConfidence(scored_emails))} :
         IF enrichment_results.emails_found # <<>> /\ scored_emails # <<>>
         THEN IF best_emails = <<>>
              THEN /\ exception' = "IndexError"
                   /\ UNCHANGED <<enriched_data, enrichment_results, log_entries>>
              ELSE /\ enriched_data' = Assemble(enriched_data, enrichment_results, best_emails)
                   /\ enrichment_results' = [enrichment_results EXCEPT !.success = TRUE]
                   /\ log_entries' = Append(log_entries, LogEntry(enrichment_results'))
                   /\ exception' = exception
         ELSE /\ log_entries' = Append(log_entries, LogEntry(enrichment_results))
              /\ UNCHANGED <<enriched_data, enrichment_results, exception>>
    /\ UNCHANGED <<config, business_data, api_calls, adapter_outcome, hunter_response,
                   returned_names, call>>
    /\ UNCHANGED service_vars

Next ==
    \/ WebsiteScraping
    \/ CurlCffi
    \/ HunterIo
    \/ PatternGeneration
    \/ ProcessAndReturn

Spec == Init /\ [][Next]_vars

---------------------------------------------------------------------------
(* Direct calls of the helpers, as the unit tests make them.               *)

UserGmail == <<"user", "@", "gmail", ".", "com">>
AdminGmail == <<"admin", "@", "gmail", ".", "com">>
TestAcme == <<"test", "@", "acmelaw", ".", "com">>

\* Arguments of _calculate_email_confidence(email, website, business_name, methods_used)
ScorerEmails == {Jane, Info, InfoMixed, NoReply, UserExample, UserGmail, AdminGmail, TestAcme}
ScorerWebsites ==
    { <<>>,
      <<"https", "://", "www", ".", "acmelaw", ".", "com">>,
      <<"https", "://", "AcmeLaw", ".", "com">>,
      <<"https", "://", "gmail", ".", "com", "/", "contact">>,
      <<"acmelaw", ".", "com">>,
      <<"www", ".", "acmelaw", ".", "com">> }
MethodLists ==
    { SelectSeq(Methods, LAMBDA m : m \in chosen) :
        chosen \in SUBSET {Methods[i] : i \in 1..Len(Methods)} }

ScorerCalls ==
    [ fn : {"_calculate_email_confidence"},
      email : ScorerEmails,
      website : ScorerWebsites,
      business_name : {AcmeLaw},
      methods_used : MethodLists ]

\* No enrich_business call is in progress.
NoEnrichment ==
    /\ config = CHOOSE c \in Configs : TRUE
    /\ business_data = CHOOSE b \in Businesses : TRUE
    /\ pc = "idle"
    /\ enrichment_results =
           [ emails_found |-> <<>>, contact_names |-> <<>>, methods_tried |-> <<>>,
             successful_method |-> None, method_results |-> <<>>, success |-> FALSE ]
    /\ enriched_data = business_data
    /\ exception = None
    /\ api_calls = <<>>
    /\ log_entries = <<>>
    /\ adapter_outcome = [m \in {Methods[i] : i \in 1..Len(Methods)} |-> "not_invoked"]
    /\ hunter_response = NoResponse
    /\ returned_names = [m \in {Methods[i] : i \in 1..Len(Methods)} |-> <<>>]

enrichment_vars ==
    <<config, business_data, pc, enrichment_results, enriched_data, exception,
      api_calls, log_entries, adapter_outcome, hunter_response, returned_names>>

Pending == "result" \notin DOMAIN call
Called(fn) == call.fn = fn /\ ~Pending

\* confidence = self._calculate_email_confidence(email, website, business_name, methods_used)
CallScorer ==
    /\ call.fn = "_calculate_email_confidence"
    /\ Pending
    /\ call' = [result |-> _calculate_email_confidence(
                               call.email, call.website, call.business_name,
                               call.methods_used)] @@ call
    /\ UNCHANGED enrichment_vars
    /\ UNCHANGED service_vars

\* Raw strings a scraped page can hold where an address is expected.
RawEmails ==
    { <<>>,
      Jane,
      InfoMixed,
      NoReply,
      <<" ", "Info", "@", "AcmeLaw", ".", "com", " ">>,
      <<"jane", " ", "at", " ", "acmelaw", " ", "dot", " ", "com">>,
      <<"jane", " ", "AT", " ", "acmelaw", " ", "DOT", " ", "com">>,
      <<"jane", "@", "acmelaw", ".", "com", ".">>,
      <<"jane", "@", "acmelaw", ".", "com", "!", "?">>,
      <<"jane", "@", "acmelaw", ".", "com", " ", ".">>,
      <<"jane", "@", "acmelaw", ".", "com", ",", " ">>,
      <<"jane", " ", "at", " ", "acmelaw", ".", "com", ";">> }

CleanerCalls == [fn : {"_clean_email"}, email : RawEmails]

\* emails = [self._clean_email(email) for email in emails]
\* emails = [email for email in emails if email and self._validate_email(email)]
\* and the same on the cleaned string once more.
CallCleaner ==
    /\ call.fn = "_clean_email"
    /\ Pending
    /\ LET once == _clean_email(call.email)
           twice == _clean_email(once)
       IN  call' = [result |-> [ once |-> once, twice |-> twice,
                                 valid_once |-> _validate_email(once),
                                 valid_twice |-> _validate_email(twice) ]] @@ call
    /\ UNCHANGED enrichment_vars
    /\ UNCHANGED service_vars

\* The matches one page can hold: up to MaxMatches strings matched by the
\* email patterns (an address written twice is matched twice) and as many
\* strings matched by the name patterns.
MaxMatches == 12

FoundEmails(n) ==
    [k \in 1..n |-> IF k = 4 THEN UserExample
                    ELSE IF k % 4 = 3 THEN <<" ", "Info", "@", "AcmeLaw", ".", "com", " ">>
                    ELSE IF k % 4 = 2 THEN InfoMixed
                    ELSE Jane]
FoundNames(n) == [k \in 1..n |-> JaneRoe]

\* seq[:n]
Take(seq, n) == SubSeq(seq, 1, IF Len(seq) < n THEN Len(seq) ELSE n)

\* CurlCffiScraper._validate_email: the pattern alone, on the stripped string
CurlCffiScraper_validate_email(email) == MatchesEmailPattern(Strip(email))

\* What each single-page extraction returns for the matches of a page.
\* EmailEnricher._scrape_page_for_emails (lines 456-466 and 497; the names
\* come from _extract_contact_names, which returns names[:3])
_scrape_page_for_emails(found_emails, found_names) ==
    LET cleaned == [k \in 1..Len(found_emails) |-> _clean_email(found_emails[k])]
        Kept(email) == email # <<>> /\ _validate_email(email)
    IN  [emails |-> SelectSeq(cleaned, Kept), contact_names |-> Take(found_names, 3)]

\* EmailEnricher._extract_emails_from_scrapling_page (lines 412-419)
_extract_emails_from_scrapling_page(found_emails, found_names) ==
    LET cleaned == [k \in 1..Len(found_emails) |-> _clean_email(found_emails[k])]
        Kept(email) == email # <<>> /\ _validate_email(email)
    IN  [emails |-> SelectSeq(cleaned, Kept), contact_names |-> Take(found_names, 5)]

\* CurlCffiScraper._extract_data_from_html (lines 281-288)
_extract_data_from_html(found_emails, found_names) ==
    LET cleaned == [k \in 1..Len(found_emails) |-> LowerStr(Strip(found_emails[k]))]
    IN  [emails |-> Take(SelectSeq(cleaned, CurlCffiScraper_validate_email), 10),
         contact_names |-> Take(found_names, 5)]

ExtractorCalls ==
    [ fn : {"_scrape_page_for_emails", "_extract_emails_from_scrapling_page",
            "_extract_data_from_html"},
      found_emails : {FoundEmails(n) : n \in 0..MaxMatches},
      found_names : {FoundNames(n) : n \in {0, 1, 3, 4, 5, 6, MaxMatches}} ]

\* One single-page extraction on a page that holds the call's matches.
CallExtractor ==
    /\ call.fn \in {"_scrape_page_for_emails", "_extract_emails_from_scrapling_page",
                    "_extract_data_from_html"}
    /\ Pending
    /\ call' = [result |->
                   CASE call.fn = "_scrape_page_for_emails" ->
                            _scrape_page_for_emails(call.found_emails, call.found_names)
                     [] call.fn = "_extract_emails_from_scrapling_page" ->
                            _extract_emails_from_scrapling_page(call.found_emails,
                                                                call.found_names)
                     [] call.fn = "_extract_data_from_html" ->
                            _extract_data_from_html(call.found_emails, call.found_names)]
                @@ call
    /\ UNCHANGED enrichment_vars
    /\ UNCHANGED service_vars

\* s * n
RECURSIVE Repeat(_, _)
Repeat(s, n) == IF n = 0 THEN <<>> ELSE s \o Repeat(s, n - 1)

\* Strings handed to the validator: every local part below with every
\* domain part, and strings that are empty, have no "@", or are 254 and 255
\* characters long.
ValidatorLocals ==
    { <<"jane">>, <<"user">>, <<"test">>, <<"user", ".", "name">>,
      <<"test", "+", "label">>, <<"contact">>, <<"image">>, <<"photo">>,
      <<"picture">>, <<"jane", " ">>, <<>> }
ValidatorDomains ==
    { <<"acmelaw", ".", "com">>, <<"example", ".", "com">>, <<"test", ".", "com">>,
      <<"placeholder", ".", "com">>, <<"domain", ".", "com">>,
      <<"domain", ".", "co", ".", "uk">>, <<"company", ".", "com">>,
      <<"yoursite", ".", "com">>, <<"mail", ".", "example", ".", "com">>,
      <<"Example", ".", "COM">>, <<"acme", "-", "law", ".", "co", ".", "uk">>,
      <<"acmelaw", ".", "c">>, <<"example", ".">>, <<"acmelaw">>, <<>> }
ValidatorInputs ==
    { local \o <<"@">> \o domain : local \in ValidatorLocals, domain \in ValidatorDomains }
    \cup { <<>>, <<"jane", "-", "acmelaw">>,
           Repeat(<<"acmelaw">>, 34) \o <<"jane", "@", "acmelaw", ".", "com">>,
           Repeat(<<"acmelaw">>, 34) \o <<"hello", "@", "acmelaw", ".", "com">>,
           Repeat(<<"test", "@", "example", ".", "com">>, 16) }

ValidatorCalls == [fn : {"_validate_email"}, email : ValidatorInputs]

\* self._validate_email(email)
CallValidator ==
    /\ call.fn = "_validate_email"
    /\ Pending
    /\ call' = [result |-> _validate_email(call.email)] @@ call
    /\ UNCHANGED enrichment_vars
    /\ UNCHANGED service_vars

HelperInit ==
    /\ NoEnrichment /\ NoPool /\ NoJob /\ NoSearch
    /\ call \in ScorerCalls \cup CleanerCalls \cup ExtractorCalls \cup ValidatorCalls

HelperNext ==
    \/ CallScorer
    \/ CallCleaner
    \/ CallExtractor
    \/ CallValidator

HelperSpec == HelperInit /\ [][HelperNext]_vars

---------------------------------------------------------------------------
(* The same call made again by an enricher built with another threshold.   *)

\* The number of addresses a call put into a record.
EmailsSet(data) ==
    IF "enriched_at" \in DOMAIN data
    THEN 1 + Len(Get(data, "additional_emails", <<>>))
    ELSE 0

\* enrich_business is called a second time on the same record, with the
\* adapters returning what they returned the first time, on an enricher
\* whose configuration differs in the threshold only.  The method blocks
\* (lines 105-180) read neither the threshold nor anything the scoring block
\* writes, so the second call reaches line 182 with the accumulators of the
\* first; `call` keeps the first call's threshold and how many addresses it set.
Rerun ==
    /\ pc = "done"
    /\ call = NoCall
    /\ \E threshold \in Thresholds \ {config.email_confidence_threshold} :
           config' = [config EXCEPT !.email_confidence_threshold = threshold]
    /\ call' = [ fn |-> "enrich_business",
                 threshold |-> config.email_confidence_threshold,
                 emails_set |-> EmailsSet(enriched_data) ]
    /\ pc' = "score"
    /\ enrichment_results' = [enrichment_results EXCEPT !.success = FALSE]
    /\ enriched_data' = business_data
    /\ exception' = None
    /\ log_entries' = <<>>
    /\ UNCHANGED <<business_data, api_calls, adapter_outcome, hunter_response,
                   returned_names>>
    /\ UNCHANGED service_vars

ThresholdNext ==
    \/ Next
    \/ Rerun

ThresholdSpec == Init /\ [][ThresholdNext]_vars

---------------------------------------------------------------------------
(* The enhanced scraper under the enrichment thread pool: the threads of   *)
(* run_background_search (search.py lines 166-172) share one EmailEnricher *)
(* and so one CurlCffiScraper and one ProxyManager.  One behaviour is one  *)
(* job whose businesses are all scraped by                                 *)
(* CurlCffiScraper.scrape_website_for_emails, one thread per business.     *)
(* Each statement that touches the shared dicts is one step of its thread. *)

\* max_pages of scrape_website_for_emails: the pages checked per website
MaxPages == 2

\* The businesses of a job: at most the three workers of the pool (search.py
\* line 167), so that each business has a thread of its own.
MaxBusinesses == 2

\* self.max_retries = config.get('enrichment.curl_cffi_max_retries', 2)
max_retries == 2

\* self.max_session_uses = 10
max_session_uses == 10

\* ProxyManager.proxies, as load_proxies read them
proxies == <<"proxy1", "proxy2">>

\* What session.get gives: a response with a status code, or an exception.
Response(status_code) == [raised |-> FALSE, status_code |-> status_code]
Raised == [raised |-> TRUE, status_code |-> 0]
NoAnswer == [raised |-> FALSE, status_code |-> 0]

\* How a page answers the attempts made on it, first attempt first.
PageBehaviours ==
    { <<Response(200), Response(200)>>, <<Response(403), Response(403)>>,
      <<Response(429), Response(200)>>, <<Response(404), Response(404)>>,
      <<Raised, Response(200)>>, <<Raised, Raised>> }

\* The websites of the businesses of a job.
PoolWebsites ==
    { <<"acmelaw", ".", "com">>,
      <<"https", "://", "acmelaw", ".", "com">>,
      <<"https", "://", "www", ".", "acmelaw", ".", "com">> }

\* What _extract_data_from_html finds on the i-th page of a website.
PoolEmails == <<Jane, Info, OldEmail>>
PageEmails(i) == <<PoolEmails[(i % Len(PoolEmails)) + 1]>>

\* if not website.startswith(('http://', 'https://')): website = 'https://' + website
WithScheme(url) ==
    IF Len(url) >= 2 /\ url[1] \in {"http", "https"} /\ url[2] = "://"
    THEN url
    ELSE <<"https", "://">> \o url

\* session_key = domain or 'default'
SessionKey(domain) == IF domain # <<>> THEN domain ELSE <<"default">>

\* del d[key]
Del(d, key) == [k \in DOMAIN d \ {key} |-> d[k]]

\* ProxyManager.get_proxy(rotate=True): the proxy and the index it leaves
get_proxy(index) ==
    IF proxies = <<>>
    THEN [proxy |-> None, current_index |-> index]
    ELSE [proxy |-> proxies[index + 1], current_index |-> (index + 1) % Len(proxies)]

\* A thread at the top of the page loop of scrape_website_for_emails
\* (lines 188-208), on the first page.
NewWorker(url) ==
    [ pc |-> "get_session", website |-> WithScheme(url), i |-> 0, attempt |-> 0,
      session |-> 0, response |-> NoAnswer, emails |-> <<>>, requests |-> <<>> ]

\* domain = urlparse(url).netloc: urljoin(website, path) keeps the netloc
Domain(w) == Netloc(w.website)

\* An access of thread t to a shared variable.
Access(t, name, key, kind) == <<t, <<name, key>>, kind>>

\* The page is over (break, the loop's end, or an exception caught at line
\* 220): the next page, or the return of line 224.
NextPage(w) ==
    [w EXCEPT !.pc = IF w.i + 1 < MaxPages THEN "get_session" ELSE "done",
              !.i = w.i + 1, !.attempt = 0, !.session = 0, !.response = NoAnswer]

NoPoolOutside ==
    UNCHANGED <<config, business_data, pc, enrichment_results, enriched_data,
                exception, api_calls, log_entries, adapter_outcome, hunter_response,
                returned_names, call, job_vars, search_vars, responses>>

\* get_session, lines 61-65: is a new session needed?
GetSession(t) ==
    LET w == worker[t]
        session_key == SessionKey(Domain(w))
        create == \/ session_key \notin DOMAIN _sessions
                  \/ Get(_session_uses, session_key, 0) >= max_session_uses
    IN  /\ w.pc = "get_session"
        /\ worker' = [worker EXCEPT ![t].pc = IF create THEN "create_session"
                                                ELSE "take_session"]
        /\ accesses' = accesses
              \cup {Access(t, "_sessions", session_key, "read")}
              \cup (IF session_key \in DOMAIN _sessions
                    THEN {Access(t, "_session_uses", session_key, "read")}
                    ELSE {})
        /\ UNCHANGED <<_sessions, _session_uses, current_index, sessions>>
        /\ NoPoolOutside

\* get_session, lines 67-101: close the old session, make a new one with
\* the next proxy, and store it.
CreateSession(t) ==
    LET w == worker[t]
        session_key == SessionKey(Domain(w))
        closed == IF session_key \in DOMAIN _sessions
                  THEN [sessions EXCEPT ![_sessions[session_key]].closed = TRUE]
                  ELSE sessions
        got == get_proxy(current_index)
    IN  /\ w.pc = "create_session"
        /\ sessions' = Append(closed, [closed |-> FALSE, proxy |-> got.proxy])
        /\ current_index' = got.current_index
        /\ _sessions' = Put(_sessions, session_key, Len(sessions) + 1)
        /\ _session_uses' = Put(_session_uses, session_key, 0)
        /\ worker' = [worker EXCEPT ![t].pc = "take_session"]
        /\ accesses' = accesses
              \cup {Access(t, "_sessions", session_key, "write"),
                    Access(t, "_session_uses", session_key, "write"),
                    Access(t, "current_index", <<>>, "read"),
                    Access(t, "current_index", <<>>, "write")}
        /\ NoPoolOutside

\* get_session, lines 103-104: session = self._sessions[session_key] raises
\* KeyError when the key has been deleted; the exception leaves
\* scrape_url_for_emails and is caught at line 220.
TakeSession(t) ==
    LET w == worker[t]
        session_key == SessionKey(Domain(w))
    IN  /\ w.pc = "take_session"
        /\ IF session_key \in DOMAIN _sessions
           THEN /\ worker' = [worker EXCEPT ![t].pc = "request",
                                            ![t].session = _sessions[session_key],
                                            ![t].attempt = 0]
                /\ _session_uses' = [_session_uses EXCEPT ![session_key] = @ + 1]
                /\ accesses' = accesses
                      \cup {Access(t, "_sessions", session_key, "read"),
                            Access(t, "_session_uses", session_key, "read"),
                            Access(t, "_session_uses", session_key, "write")}
           ELSE /\ worker' = [worker EXCEPT ![t] = NextPage(w)]
                /\ accesses' = accesses \cup {Access(t, "_sessions", session_key, "read")}
                /\ UNCHANGED _session_uses
        /\ UNCHANGED <<_sessions, current_index, sessions>>
        /\ NoPoolOutside

\* response = session.get(url, ...), line 133, on the session the thread
\* took at line 125.  The page answers by its behaviour; on a session that
\* has been closed the library either raises or sends the request all the
\* same.
Request(t) ==
    LET w == worker[t]
        closed == sessions[w.session].closed
        answer == responses[w.i + 1][w.attempt + 1]
    IN  /\ w.pc = "request"
        /\ \E response \in (IF closed THEN {Raised, answer} ELSE {answer}) :
              worker' = [worker EXCEPT
                  ![t].pc = "respond",
                  ![t].response = response,
                  ![t].requests = Append(@, [ i |-> w.i, attempt |-> w.attempt,
                                              session |-> w.session,
                                              closed |-> closed,
                                              response |-> response ])]
        /\ UNCHANGED <<_sessions, _session_uses, current_index, sessions, accesses>>
        /\ NoPoolOutside

\* Lines 141-173: what the attempt's outcome leads to.
Respond(t) ==
    LET w == worker[t]
        domain == Domain(w)
        again == [w EXCEPT !.pc = "request", !.attempt = w.attempt + 1,
                           !.response = NoAnswer]
    IN  /\ w.pc = "respond"
        /\ IF w.response.raised
           THEN \* except Exception (lines 168-173)
                /\ worker' = [worker EXCEPT ![t] = IF w.attempt < max_retries - 1
                                                   THEN again ELSE NextPage(w)]
                /\ UNCHANGED <<_sessions, _session_uses, sessions, accesses>>
           ELSE IF w.response.status_code = 200
           THEN \* lines 141-150
                /\ worker' = [worker EXCEPT
                                 ![t] = [NextPage(w) EXCEPT !.emails = @ \o PageEmails(w.i)]]
                /\ UNCHANGED <<_sessions, _session_uses, sessions, accesses>>
           ELSE IF w.response.status_code \in {403, 429}
           THEN \* lines 152-163
                IF w.attempt < max_retries - 1
                THEN /\ worker' = [worker EXCEPT ![t] = again]
                     /\ IF domain \in DOMAIN _sessions
                        THEN /\ sessions' = [sessions EXCEPT ![_sessions[domain]].closed = TRUE]
                             /\ _sessions' = Del(_sessions, domain)
                             /\ _session_uses' = Put(_session_uses, domain, max_session_uses)
                             /\ accesses' = accesses
                                   \cup {Access(t, "_sessions", domain, "read"),
                                         Access(t, "_sessions", domain, "write"),
                                         Access(t, "_session_uses", domain, "write")}
                        ELSE /\ accesses' = accesses \cup {Access(t, "_sessions", domain, "read")}
                             /\ UNCHANGED <<_sessions, _session_uses, sessions>>
                ELSE /\ worker' = [worker EXCEPT ![t] = NextPage(w)]
                     /\ UNCHANGED <<_sessions, _session_uses, sessions, accesses>>
           ELSE \* lines 164-166
                /\ worker' = [worker EXCEPT ![t] = NextPage(w)]
                /\ UNCHANGED <<_sessions, _session_uses, sessions, accesses>>
        /\ UNCHANGED current_index
        /\ NoPoolOutside

\* A job of one or more businesses, nothing scraped yet.
PoolInit ==
    /\ NoEnrichment /\ call = NoCall /\ NoJob /\ NoSearch
    /\ responses \in [1..MaxPages -> PageBehaviours]
    /\ \E n \in 1..MaxBusinesses :
          worker \in [1..n -> {NewWorker(url) : url \in PoolWebsites}]
    /\ _sessions = <<>>
    /\ _session_uses = <<>>
    /\ current_index = 0
    /\ sessions = <<>>
    /\ accesses = {}

PoolNext ==
    \/ \E t \in 1..Len(worker) : GetSession(t)
    \/ \E t \in 1..Len(worker) : CreateSession(t)
    \/ \E t \in 1..Len(worker) : TakeSession(t)
    \/ \E t \in 1..Len(worker) : Request(t)
    \/ \E t \in 1..Len(worker) : Respond(t)

PoolSpec == PoolInit /\ [][PoolNext]_vars

---------------------------------------------------------------------------
(* The provider search: GoogleMapsScraper.search and _make_request.        *)

\* _make_request(params, retry_count=3)
retry_count == 3

\* self.cost_per_request = 0.00033 * 5 = 0.00165, in units of 0.00001 dollars
cost_per_request == 165

\* What _make_request returned: None, or the decoded body of a 200 answer,
\* a dictionary (empty or not) that holds so many businesses, of which so
\* many can be parsed.
NoData == [kind |-> "None", truthy |-> FALSE, businesses |-> 0, parsed |-> 0]
Json(truthy, businesses, parsed) ==
    [kind |-> "json", truthy |-> truthy, businesses |-> businesses, parsed |-> parsed]

Bodies ==
    { Json(FALSE, 0, 0), Json(TRUE, 0, 0), Json(TRUE, 2, 2), Json(TRUE, 20, 19),
      Json(TRUE, 20, 20), Json(TRUE, 25, 25) }

\* What one self.client.get can be answered with.
GetOutcomes ==
    { [kind |-> "status", status_code |-> 200, body |-> body] : body \in Bodies }
        \cup { [kind |-> "status", status_code |-> 200, body |-> NoData],   \* no JSON
               [kind |-> "status", status_code |-> 429, body |-> NoData],
               [kind |-> "status", status_code |-> 500, body |-> NoData],
               [kind |-> "RequestError", status_code |-> 0, body |-> NoData] }

MaxResults == {0, 1, 20, 21, 50, 100, 101, 150}

\* A faulty variant of max_pages: the limit of 6 pages is left out.
max_pagesUncapped(m) == (m + 19) \div 20

\* max_pages = min((max_results + 19) // 20, 6)
max_pages(m) == IF (m + 19) \div 20 < 6 THEN (m + 19) \div 20 ELSE 6

\* estimate_cost(max_results)
estimate_cost(m) ==
    LET pages_needed == IF (m + 19) \div 20 < 6 THEN (m + 19) \div 20 ELSE 6
    IN  pages_needed * cost_per_request

\* A faulty variant of AfterAttempt: an answer 429 is retried without end.
AfterAttemptRetrying429(outcome, n) ==
    IF outcome.status_code = 200
    THEN [returns |-> TRUE, value |-> outcome.body, attempt |-> n]
    ELSE IF outcome.status_code = 429
    THEN [returns |-> FALSE, value |-> NoData, attempt |-> n]
    ELSE IF n = retry_count - 1
    THEN [returns |-> TRUE, value |-> NoData, attempt |-> n]
    ELSE [returns |-> FALSE, value |-> NoData, attempt |-> n + 1]

\* What the body of "for attempt in range(retry_count)" does with the answer
\* to attempt n: return a value, or go on with the next attempt; the loop
\* ends, and None is returned, after the last attempt (line 101).
AfterAttempt(outcome, n) ==
    IF outcome.status_code = 200
    THEN [returns |-> TRUE, value |-> outcome.body, attempt |-> n]
    ELSE IF n + 1 = retry_count
    THEN [returns |-> TRUE, value |-> NoData, attempt |-> n]
    ELSE [returns |-> FALSE, value |-> NoData, attempt |-> n + 1]

\* results = self._parse_results(response_data): one entry per parsed
\* business, written as the page it came from
Results(data, p) == [k \in 1..data.parsed |-> p]

NoSearchOutside == UNCHANGED <<enrichment_vars, pool_vars, job_vars>>

\* Line 133: the loop test, and the call of _make_request for the page.
WhileTest ==
    /\ search_pc = "while"
    /\ IF Len(all_results) < max_results /\ page < max_pages(max_results)
       THEN /\ search_pc' = "_make_request"
            /\ attempt' = 0
            /\ http_log' = <<>>
            /\ pages_requested' = Append(pages_requested, page)
       ELSE /\ search_pc' = "return"
            /\ UNCHANGED <<attempt, http_log, pages_requested>>
    /\ UNCHANGED <<max_results, page, all_results, response_data, final_results, call>>
    /\ NoSearchOutside

\* Lines 57-99: one attempt of _make_request.
ClientGet ==
    /\ search_pc = "_make_request"
    /\ \E outcome \in GetOutcomes :
          LET after == AfterAttempt(outcome, attempt)
          IN  /\ http_log' = Append(http_log, [page |-> page, attempt |-> attempt,
                                                kind |-> outcome.kind,
                                                status_code |-> outcome.status_code])
              /\ attempt' = after.attempt
              /\ IF after.returns
                 THEN response_data' = after.value /\ search_pc' = "page"
                 ELSE UNCHANGED <<response_data, search_pc>>
    /\ UNCHANGED <<max_results, page, all_results, pages_requested, final_results, call>>
    /\ NoSearchOutside

\* Lines 150-169: what search does with the answer for the page.
ProcessPage ==
    /\ search_pc = "page"
    /\ IF ~response_data.truthy
       THEN search_pc' = "return" /\ UNCHANGED <<all_results, page>>
       ELSE LET results == Results(response_data, page)
            IN  IF results = <<>>
                THEN search_pc' = "return" /\ UNCHANGED <<all_results, page>>
                ELSE /\ all_results' = all_results \o results
                     /\ IF Len(results) < 20
                        THEN search_pc' = "return" /\ UNCHANGED page
                        ELSE search_pc' = "while" /\ page' = page + 1
    /\ UNCHANGED <<max_results, attempt, http_log, response_data, pages_requested,
                   final_results, call>>
    /\ NoSearchOutside

\* Lines 183-186: final_results = all_results[:max_results]
ReturnFinalResults ==
    /\ search_pc = "return"
    /\ final_results' = Take(all_results, max_results)
    /\ search_pc' = "done"
    /\ UNCHANGED <<max_results, page, all_results, attempt, http_log, response_data,
                   pages_requested, call>>
    /\ NoSearchOutside

\* estimate_cost(max_results), called for the same search
EstimateCost ==
    /\ call.fn = "estimate_cost"
    /\ Pending
    /\ call' = [result |-> estimate_cost(call.max_results)] @@ call
    /\ UNCHANGED <<enrichment_vars, service_vars>>

SearchInit ==
    /\ NoEnrichment /\ NoPool /\ NoJob
    /\ max_results \in MaxResults
    /\ call = [fn |-> "estimate_cost", max_results |-> max_results]
    /\ page = 0
    /\ all_results = <<>>
    /\ search_pc = "while"
    /\ attempt = 0
    /\ http_log = <<>>
    /\ response_data = NoData
    /\ pages_requested = <<>>
    /\ final_results = <<>>

SearchNext ==
    \/ WhileTest
    \/ ClientGet
    \/ ProcessPage
    \/ ReturnFinalResults
    \/ EstimateCost

SearchSpec == SearchInit /\ [][SearchNext]_vars

\* The calling thread runs on: each sleep of _rate_limit and of the backoff
\* is finite, and each self.client.get ends by its 30 second timeout.
SearchProgress == WhileTest \/ ClientGet \/ ProcessPage \/ ReturnFinalResults
SearchFairSpec == SearchInit /\ [][SearchNext]_vars /\ WF_vars(SearchProgress)

---------------------------------------------------------------------------
(* The enrichment phase of run_background_search.                          *)

\* Largest number of businesses a job enriches here.
MaxJobSize == 4

\* ThreadPoolExecutor(max_workers=3)
max_workers == 3

\* What the websocket manager is asked to send.
Emission(event, status, value) == [event |-> event, status |-> status, value |-> value]

\* A future of executor.submit(safe_enrich_business, ...): waiting in the
\* executor's queue, run by a worker, or finished with its result.
Future(state, email) == [state |-> state, email |-> email]

Running == {i \in 1..Len(futures) : futures[i].state = "running"}
Queued == {i \in 1..Len(futures) : futures[i].state = "queued"}

NoJobOutside == UNCHANGED <<enrichment_vars, call, pool_vars, search_vars>>

\* A free worker takes the oldest queued task.
WorkerStart(i) ==
    /\ i \in Queued
    /\ \A j \in Queued : i <= j
    /\ Cardinality(Running) < max_workers
    /\ futures' = [futures EXCEPT ![i] = Future("running", FALSE)]
    /\ UNCHANGED <<processed_businesses, handled, enriched_count, emitted>>
    /\ NoJobOutside

\* safe_enrich_business returns, with or without an email.
WorkerFinish(i) ==
    /\ i \in Running
    /\ \E email \in BOOLEAN : futures' = [futures EXCEPT ![i] = Future("finished", email)]
    /\ UNCHANGED <<processed_businesses, handled, enriched_count, emitted>>
    /\ NoJobOutside

\* Lines 175-197: the body of the as_completed loop for the future of the
\* business submitted at index i - 1.
AsCompleted(i) ==
    /\ i \in 1..Len(futures)
    /\ futures[i].state = "finished"
    /\ \A k \in 1..Len(handled) : handled[k] # i
    /\ handled' = Append(handled, i)
    /\ enriched_count' = IF futures[i].email THEN enriched_count + 1 ELSE enriched_count
    /\ \E raises \in BOOLEAN :
          emitted' =
              IF raises
              THEN Append(emitted, Emission("error", "enrichment", i))
              ELSE emitted \o
                   << Emission("enrichment_status", "enriching", (i - 1) + 1),
                      Emission("search_progress", "enriching",
                               50 + ((i - 1) * 30) \div Len(processed_businesses)) >>
    /\ UNCHANGED <<processed_businesses, futures>>
    /\ NoJobOutside

\* Lines 199-203: after the pool has shut down.
EmitEnriched ==
    /\ Len(handled) = Len(futures)
    /\ emitted[Len(emitted)].status # "enriched"
    /\ emitted' = Append(emitted, Emission("search_progress", "enriched", 80))
    /\ UNCHANGED <<processed_businesses, futures, handled, enriched_count>>
    /\ NoJobOutside

\* Lines 163-172: the first emission, and every business submitted.
JobInit ==
    /\ NoEnrichment /\ NoPool /\ NoSearch
    /\ call = NoCall
    /\ \E n \in 1..MaxJobSize :
          /\ processed_businesses = [i \in 1..n |-> AcmeLaw]
          /\ futures = [i \in 1..n |-> Future("queued", FALSE)]
    /\ handled = <<>>
    /\ enriched_count = 0
    /\ emitted = <<Emission("search_progress", "enriching", 50)>>

JobNext ==
    \/ \E i \in 1..Len(futures) : WorkerStart(i)
    \/ \E i \in 1..Len(futures) : WorkerFinish(i)
    \/ \E i \in 1..Len(futures) : AsCompleted(i)
    \/ EmitEnriched

JobSpec == JobInit /\ [][JobNext]_vars

---------------------------------------------------------------------------
(* Properties.                                                             *)

\* The priority order of the methods as the specification states it
\* (enhanced_scraping is 'curl_cffi', domain_search_api is 'hunter_io').
PriorityOrder == <<"website_scraping", "curl_cffi", "hunter_io", "pattern_generation">>
Priority(m) == CHOOSE i \in 1..Len(PriorityOrder) : PriorityOrder[i] = m
BlockPriority(block) ==
    IF \E i \in 1..Len(PriorityOrder) : PriorityOrder[i] = block
    THEN Priority(block)
    ELSE Len(PriorityOrder) + 1

Returned == pc = "done" /\ exception = None
Enriched == "enriched_at" \in DOMAIN enriched_data
Threshold == config.email_confidence_threshold
MaxEmails == config.max_emails_per_business
TriedSet == {enrichment_results.methods_tried[i] :
                i \in 1..Len(enrichment_results.methods_tried)}
ResultOf(m) == Get(enrichment_results.method_results, m, 0)

\* The score the scorer gives an email at the end of the call, and the
\* emails found that are valid and reach the threshold.
ScoreOf(email, tried) == _calculate_email_confidence(email, website, business_name, tried)
QualifiedWith(tried) ==
    {email \in UniqueEmails(enrichment_results) :
        _validate_email(email) /\ ScoreOf(email, tried) >= Threshold}
Qualified == QualifiedWith(enrichment_results.methods_tried)
QualifiesAtEnd(email) ==
    /\ _validate_email(email)
    /\ ScoreOf(email, enrichment_results.methods_tried) >= Threshold
NoneQualifies == \A email \in UniqueEmails(enrichment_results) : ~QualifiesAtEnd(email)

\* The addresses the call put into the record.
AdditionalEmails == Get(enriched_data, "additional_emails", <<>>)
OutputEmails ==
    IF Enriched
    THEN {enriched_data.email} \cup {AdditionalEmails[i] : i \in 1..Len(AdditionalEmails)}
    ELSE {}
OutputCount == IF Enriched THEN 1 + Len(AdditionalEmails) ELSE 0

C2_AllRaiseReturnsInput ==
    (pc = "done" /\ \A m \in TriedSet : adapter_outcome[m] = "raised")
        => exception = None /\ enriched_data = business_data

\* A call in which all four adapters were invoked and all raised.
C2_Witness ==
    /\ pc = "done"
    /\ Len(enrichment_results.methods_tried) = Len(PriorityOrder)
    /\ \A m \in TriedSet : adapter_outcome[m] = "raised"
    /\ enriched_data = business_data

\* The first method, in priority order, that returned at least one email.
Contributors == {m \in TriedSet : ResultOf(m) > 0}
FirstContributor ==
    IF Contributors = {} THEN None
    ELSE CHOOSE m \in Contributors : \A o \in Contributors : Priority(m) <= Priority(o)

\* C3: successful_method is, at every point of the call, the first method in
\* priority order that returned at least one raw email (so it is assigned
\* once and never reassigned), and the returned enrichment_method equals it.
C3_ProvenanceIsFirstContributor ==
    /\ enrichment_results.successful_method = FirstContributor
    /\ (Returned /\ Enriched) => enriched_data.enrichment_method = FirstContributor

\* website_scraping and pattern_generation both contributed, the primary
\* email is one that only pattern_generation produced, and the provenance
\* is website_scraping.
C3_Witness ==
    /\ Returned /\ Enriched
    /\ ResultOf("website_scraping") > 0
    /\ ResultOf("pattern_generation") > 0
    /\ enriched_data.enrichment_method = "website_scraping"
    /\ \A i \in 1..ResultOf("website_scraping") :
          enrichment_results.emails_found[i] # enriched_data.email

\* C4: for every max_emails_per_business, enrich_business returns normally
\* and sets at most max_emails_per_business addresses.
C4_CapRespected ==
    pc = "done" => exception = None /\ OutputCount <= MaxEmails

\* C5: a later method is not invoked when, at its turn, the qualified
\* candidates accumulated so far already number max_emails_per_business; and
\* a method that is invoked is merged whole, whatever the cap (the cap is
\* looked at between methods only).
C5_CapCheckedBetweenMethods ==
    [][ \A m \in {"curl_cffi", "hunter_io", "pattern_generation"} :
          pc = m =>
            /\ Cardinality(Qualified) >= MaxEmails =>
                  /\ enrichment_results'.methods_tried = enrichment_results.methods_tried
                  /\ adapter_outcome'[m] = "not_invoked"
            /\ Len(enrichment_results'.emails_found) =
                  Len(enrichment_results.emails_found)
                    + Get(enrichment_results'.method_results, m, 0) ]_vars

\* The paid search was enabled and had its prerequisite, and was skipped at
\* its turn because the qualified candidates had reached the cap.
C5_Witness ==
    /\ pc = "pattern_generation"
    /\ hunter_enabled /\ website # <<>>
    /\ adapter_outcome["hunter_io"] = "not_invoked"
    /\ MaxEmails >= 1
    /\ Cardinality(Qualified) >= MaxEmails

\* C6: when no candidate reaches the threshold (or nothing was found), the
\* call raises nothing and returns the input record unchanged.
C6_NoQualifiedReturnsInput ==
    (pc = "done" /\ NoneQualifies)
        => exception = None /\ enriched_data = business_data

\* Valid candidates were found and none reached the threshold.
C6_Witness ==
    /\ Returned
    /\ enriched_data = business_data
    /\ ValidEmails(enrichment_results) # {}
    /\ NoneQualifies

\* C7: when the call sets the primary email, its confidence_score is the
\* email's score and is at least the threshold, and every additional email
\* scored at least the threshold.
C7_OutputMeetsThreshold ==
    (Returned /\ Enriched) =>
        /\ enriched_data.confidence_score >= Threshold
        /\ enriched_data.confidence_score =
              ScoreOf(enriched_data.email, enrichment_results.methods_tried)
        /\ \A email \in OutputEmails :
              ScoreOf(email, enrichment_results.methods_tried) >= Threshold

\* A call that set a primary and an additional email while a valid candidate
\* stayed below the threshold.
C7_Witness ==
    /\ Returned /\ Enriched
    /\ Len(AdditionalEmails) >= 1
    /\ \E email \in ValidEmails(enrichment_results) :
          ScoreOf(email, enrichment_results.methods_tried) < Threshold

\* The position at which an email was first discovered.
Discovered(email) ==
    CHOOSE i \in 1..Len(enrichment_results.emails_found) :
        /\ enrichment_results.emails_found[i] = email
        /\ \A j \in 1..(i - 1) : enrichment_results.emails_found[j] # email

\* C8: the primary email is the qualified email of highest score, and among
\* those of equal score the one discovered first.
C8_FirstDiscoveredWins ==
    (Returned /\ Enriched) =>
        \A other \in Qualified :
            LET mine == ScoreOf(enriched_data.email, enrichment_results.methods_tried)
                theirs == ScoreOf(other, enrichment_results.methods_tried)
            IN  \/ mine > theirs
                \/ mine = theirs /\ Discovered(enriched_data.email) <= Discovered(other)

\* C9: an invocation of the domain-search adapter makes exactly one cost-log
\* call: with cost unit cost times the number of emails it returned and
\* success=True when the response was a parsed 200, with success=False
\* otherwise; and no call is made when the adapter did not run.
C9_OneCostLogPerInvocation ==
    IF adapter_outcome["hunter_io"] = "returned"
    THEN /\ Len(api_calls) = 1
         /\ api_calls[1].provider = "hunter_io"
         /\ IF hunter_response.kind = "ok"
            THEN /\ api_calls[1].success
                 /\ api_calls[1].cost = hunter_cost_per_email * ResultOf("hunter_io")
            ELSE /\ ~api_calls[1].success
                 /\ api_calls[1].cost = 0
    ELSE api_calls = <<>>

\* The adapter returned two emails and logged one call of twice the unit cost.
C9_Witness ==
    /\ adapter_outcome["hunter_io"] = "returned"
    /\ ResultOf("hunter_io") = 2
    /\ api_calls = <<ApiCall(hunter_cost_per_email * 2, TRUE)>>

\* C10 (Scenario B): the website's domain is acmelaw.com, the threshold is
\* 0.7, every scraping method was tried and returned nothing, the paid search
\* added nothing and pattern generation ran: then the call returns
\* info@acmelaw.com with confidence 0.4 + 0.2 + 0.1 and provenance
\* pattern_generation.
C10_ScenarioB ==
    ( /\ Returned
      /\ DomainOf(website) = <<"acmelaw", ".", "com">>
      /\ Threshold = Fl(7, 0)
      /\ MaxEmails >= 1
      /\ adapter_outcome["website_scraping"] = "returned" /\ ResultOf("website_scraping") = 0
      /\ adapter_outcome["curl_cffi"] = "returned" /\ ResultOf("curl_cffi") = 0
      /\ ResultOf("hunter_io") = 0
      /\ adapter_outcome["pattern_generation"] = "returned" )
    => /\ Enriched
       /\ enriched_data.email = Info
       /\ enriched_data.confidence_score \in {Fl(7, 0), Fl(7, 1)}
       /\ enriched_data.enrichment_method = "pattern_generation"

\* methods_used without pattern_generation
WithoutPatterns(methods_used) == SelectSeq(methods_used, LAMBDA m : m # "pattern_generation")

\* C11: the 0.4 of pattern_generation is added only when it is the only
\* method: when website_scraping or hunter_io is among the methods as well,
\* the score is what it is without pattern_generation among them.
C11_PatternBaseOnlyAlone ==
    ( /\ Called("_calculate_email_confidence")
      /\ InSeq("pattern_generation", call.methods_used)
      /\ \/ InSeq("website_scraping", call.methods_used)
         \/ InSeq("hunter_io", call.methods_used) )
    => call.result =
          _calculate_email_confidence(call.email, call.website, call.business_name,
                                      WithoutPatterns(call.methods_used))

\* The sum of the method, domain, prefix and penalty contributions of the
\* call, before the clamp.
ContributionSum ==
    SuspiciousPenalty(
        ProfessionalBonus(
            DomainBonus(MethodBase(call.methods_used), call.email, call.website),
            call.email),
        call.email)

\* C12: the confidence the scorer returns lies in [0, 1]: it is the sum of
\* the contributions when that lies in [0, 1], 0 when the sum is negative
\* and 1 when the sum exceeds 1.
C12_ConfidenceClamped ==
    Called("_calculate_email_confidence") =>
        /\ Fl(0, 0) <= call.result /\ call.result <= Fl(10, 0)
        /\ ContributionSum < Fl(0, 0) => call.result = Fl(0, 0)
        /\ ContributionSum > Fl(10, 0) => call.result = Fl(10, 0)
        /\ (Fl(0, 0) <= ContributionSum /\ ContributionSum <= Fl(10, 0))
              => call.result = ContributionSum

\* A call whose contributions sum to more than 1 and that returned 1.
C12_Witness ==
    /\ Called("_calculate_email_confidence")
    /\ ContributionSum > Fl(10, 0)
    /\ call.result = Fl(10, 0)

\* C13: cleaning a cleaned string does not change whether it validates:
\* is_valid(clean(x)) = is_valid(clean(clean(x))).
C13_ValidatorIdempotent ==
    Called("_clean_email") => call.result.valid_once = call.result.valid_twice

\* The methods whose adapter returned at least one contact name, and the
\* earliest of them in priority order.
Namers == {m \in TriedSet : returned_names[m] # <<>>}
FirstNamer == CHOOSE m \in Namers : \A o \in Namers : Priority(m) <= Priority(o)

\* C14: contact_name of an enriched record is the first name of the earliest
\* method, in priority order, that returned a name, whether or not that
\* method returned emails.
C14_FirstNameAcrossMethods ==
    (Returned /\ Enriched /\ Namers # {}) =>
        /\ "contact_name" \in DOMAIN enriched_data
        /\ enriched_data.contact_name = returned_names[FirstNamer][1]

\* C15: at the end of a call method_results has an entry for every method
\* tried, and the entry of a method whose adapter raised is 0.
C15_FailedMethodCountedZero ==
    pc = "done" =>
        \A m \in TriedSet :
            /\ m \in DOMAIN enrichment_results.method_results
            /\ adapter_outcome[m] = "raised" => enrichment_results.method_results[m] = 0

\* clean(x): trim and lower-case
Cleaned(email) == LowerStr(Strip(email))
OutputList == IF Enriched THEN <<enriched_data.email>> \o AdditionalEmails ELSE <<>>

\* C16: no two addresses among the returned email and additional_emails are
\* equal after cleaning.
C16_OutputDeduplicated ==
    Returned =>
        \A i, j \in 1..Len(OutputList) :
            i # j => Cleaned(OutputList[i]) # Cleaned(OutputList[j])

\* C19: for a record whose website is empty or whitespace only no method is
\* invoked, nothing is cost-logged, and the call returns the input record.
C19_NoWebsiteNoMethods ==
    Strip(Get(business_data, "website", <<>>)) = <<>> =>
        /\ enrichment_results.methods_tried = <<>>
        /\ \A m \in DOMAIN adapter_outcome : adapter_outcome[m] = "not_invoked"
        /\ api_calls = <<>>
        /\ pc = "done" => exception = None /\ enriched_data = business_data

\* A finished call on a whitespace-only website with every method enabled.
C19_Witness ==
    /\ pc = "done"
    /\ Get(business_data, "website", <<>>) = <<" ">>
    /\ config.enable_website_scraping /\ use_curl_cffi /\ hunter_enabled
    /\ config.enable_pattern_generation /\ MaxEmails >= 1
    /\ enriched_data = business_data

\* C20: every call emits exactly one analytics entry, after the methods and
\* the scoring: none while the call runs, one once it has ended.
C20_OneLogEntryPerCall ==
    /\ pc # "done" => log_entries = <<>>
    /\ pc = "done" => Len(log_entries) = 1

\* The domain of an email (what follows "@"), and the host of a website
\* string written with or without a scheme, leading "www." stripped; both
\* lower-cased.
EmailDomain(email) == LowerStr(SubSeq(email, IndexOf(email, "@") + 1, Len(email)))
SiteDomain(site) ==
    LET rest == IF Len(site) >= 2 /\ site[2] = "://" THEN SubSeq(site, 3, Len(site)) ELSE site
        cut == IndexOf(rest, "/")
        host == IF cut = 0 THEN rest ELSE SubSeq(rest, 1, cut - 1)
    IN  LowerStr(IF StartsWith(host, <<"www", ".">>) THEN SubSeq(host, 3, Len(host)) ELSE host)

\* The score of the call's email with no website given: no domain bonus.
ScoreWithoutWebsite ==
    _calculate_email_confidence(call.email, <<>>, call.business_name, call.methods_used)

\* C17: the 0.2 domain bonus is added exactly when the email's domain is the
\* website's domain, whatever form the website string has: an email of
\* another domain scores as it does with no website, and an email of the
\* website's domain scores more (unless the clamp hides the bonus).
C17_DomainBonusOnlyOnMatch ==
    Called("_calculate_email_confidence") =>
        IF call.website # <<>> /\ EmailDomain(call.email) = SiteDomain(call.website)
        THEN \/ call.result > ScoreWithoutWebsite
             \/ ScoreWithoutWebsite = Fl(10, 0)
             \/ call.result = Fl(0, 0)
        ELSE call.result = ScoreWithoutWebsite

\* C18: with the adapters' outputs and the rest of the configuration fixed,
\* a call made with a higher threshold sets no more addresses (primary plus
\* additional) than the call made with the lower threshold.
C18_ThresholdMonotone ==
    (pc = "done" /\ call.fn = "enrich_business") =>
        /\ Threshold > call.threshold => EmailsSet(enriched_data) <= call.emails_set
        /\ Threshold < call.threshold => EmailsSet(enriched_data) >= call.emails_set

\* The second call, with the higher threshold, set fewer addresses than the
\* first, and still set one.
C18_Witness ==
    /\ pc = "done" /\ call.fn = "enrich_business"
    /\ Threshold > call.threshold
    /\ EmailsSet(enriched_data) >= 1
    /\ EmailsSet(enriched_data) < call.emails_set


\* Whether a page is scraped when its website is scraped by one thread
\* alone, from attempt a on: every outcome the attempts can have.  The first
\* attempt of a page is made on an open session; after a 403 or 429 the
\* session is closed.
RECURSIVE ScrapedAlone(_, _, _)
ScrapedAlone(behaviour, a, closed) ==
    IF a >= max_retries THEN {FALSE}
    ELSE UNION { IF response.raised THEN ScrapedAlone(behaviour, a + 1, closed)
                 ELSE IF response.status_code = 200 THEN {TRUE}
                 ELSE IF response.status_code \in {403, 429}
                      THEN ScrapedAlone(behaviour, a + 1, TRUE)
                 ELSE {FALSE}
               : response \in (IF closed THEN {Raised, behaviour[a + 1]}
                                         ELSE {behaviour[a + 1]}) }

\* The sets of emails scrape_website_for_emails can return for the website
\* when no other thread runs.
AloneResults ==
    { UNION {{PageEmails(i)[1]} : i \in pages} :
        pages \in { ps \in SUBSET (0..(MaxPages - 1)) :
                       \A i \in 0..(MaxPages - 1) :
                           (i \in ps) \in ScrapedAlone(responses[i + 1], 0, FALSE) } }

\* set(emails) of a thread
EmailsOf(t) == {worker[t].emails[k] : k \in 1..Len(worker[t].emails)}

\* No variable one thread wrote was read or written by another thread.
NoSharedAccess ==
    \A a, b \in accesses : (a[2] = b[2] /\ a[3] = "write") => a[1] = b[1]

\* Every thread that has returned returned what it returns alone.
ResultsAsAlone ==
    \A t \in 1..Len(worker) : worker[t].pc = "done" => EmailsOf(t) \in AloneResults

\* C21: the threads of the pool share no mutable state: no variable written
\* during one business's enrichment (session table, use counters, proxy
\* index) is read or written during another's, and each business's result
\* is what it is when the business is enriched alone.
C21_NoSharedMutableState == NoSharedAccess /\ ResultsAsAlone


\* The requests a thread has issued, and whether one was answered 403 or 429.
RequestsOf(t) == worker[t].requests
Refused(request) ==
    ~request.response.raised /\ request.response.status_code \in {403, 429}

\* C22: in the enhanced scraper a 403 or 429 is retried exactly once (the
\* next request of the thread is the second attempt on the same page, and no
\* page gets a third), and when the retry is refused as well the scraper
\* gives up for the business: the thread issues no further request.
C22_OneRetryThenGiveUp ==
    \A t \in 1..Len(worker) :
        \A k \in 1..Len(RequestsOf(t)) :
            LET request == RequestsOf(t)[k]
            IN  /\ request.attempt <= 1
                /\ (Refused(request) /\ request.attempt = 0 /\ k < Len(RequestsOf(t)))
                      => /\ RequestsOf(t)[k + 1].i = request.i
                         /\ RequestsOf(t)[k + 1].attempt = 1
                /\ (Refused(request) /\ request.attempt = 1) => k = Len(RequestsOf(t))

\* C29: no request is issued on a session that has been closed, by one
\* thread alone or by several: the retry after a 403 or 429 runs on a new
\* session.
C29_NoRequestOnClosedSession ==
    \A t \in 1..Len(worker) :
        \A k \in 1..Len(RequestsOf(t)) : ~RequestsOf(t)[k].closed


\* C23: every single-page extraction, on each of the three paths, returns at
\* most 10 emails and at most 5 names, whatever the page holds.
C23_ExtractionCapped ==
    (~Pending /\ call.fn \in {"_scrape_page_for_emails",
                              "_extract_emails_from_scrapling_page",
                              "_extract_data_from_html"})
        => /\ Len(call.result.emails) <= 10
           /\ Len(call.result.contact_names) <= 5


\* The exclusion list as the specification writes it: domains and local
\* parts found anywhere in the address.
ExclusionList ==
    { <<"example", ".">>, <<"test", ".">>, <<"placeholder", ".">>,
      <<"domain", ".">>, <<"company", ".">>, <<"yoursite", ".">>,
      <<"image", "@">>, <<"photo", "@">>, <<"picture", "@">> }

\* The same list with each domain entry directly after the "@".
AnchoredExclusionList ==
    { <<"@", "example", ".">>, <<"@", "test", ".">>, <<"@", "placeholder", ".">>,
      <<"@", "domain", ".">>, <<"@", "company", ".">>, <<"@", "yoursite", ".">>,
      <<"image", "@">>, <<"photo", "@">>, <<"picture", "@">> }

Validated == ~Pending /\ call.fn = "_validate_email"

MustReject(email, entries) ==
    \/ email = <<>>
    \/ StrLen(email) > 254
    \/ ~MatchesEmailPattern(email)
    \/ \E entry \in entries : Contains(LowerStr(email), entry)

\* C24: the validator rejects every address that is empty, longer than 254
\* characters, not of the shape local@domain.tld, or that holds an entry of
\* the exclusion list (example., test., placeholder., domain., company.,
\* yoursite., image@, photo@, picture@) as a substring.
C24_ValidatorRejects ==
    (Validated /\ MustReject(call.email, ExclusionList)) => call.result = FALSE

\* C24 as amended: the same, where a domain entry of the exclusion list
\* counts only directly after the "@" (the domain part begins with
\* example., test., placeholder., domain., company. or yoursite.), in any
\* letter case; the local-part entries image@, photo@ and picture@ count
\* at the end of the local part.
C24_ValidatorRejectsAnchored ==
    (Validated /\ MustReject(call.email, AnchoredExclusionList)) => call.result = FALSE

\* A well-formed address of ordinary length was handed to the validator, its
\* domain part begins with an entry of the exclusion list, and it was rejected.
C24_Witness ==
    /\ Validated
    /\ call.email = <<"contact", "@", "placeholder", ".", "com">>
    /\ MatchesEmailPattern(call.email)
    /\ call.result = FALSE

\* C25: the validator accepts every non-empty address of at most 254
\* characters that has the shape local@domain.tld, with dotted local parts,
\* plus-labels and multi-label domains; in particular test@example.com,
\* user.name@domain.co.uk and test+label@domain.com.
C25_ValidatorAccepts ==
    (/\ Validated
     /\ call.email # <<>>
     /\ StrLen(call.email) <= 254
     /\ MatchesEmailPattern(call.email)) => call.result = TRUE


\* C28: whenever enrich_business sets email or additional_emails, every such
\* address passes the enricher's validator, whichever adapter produced it.
C28_OutputEmailsValid ==
    (Returned /\ Enriched) => \A email \in OutputEmails : _validate_email(email)

\* An enriched record was returned although the adapters had found an address
\* that the enricher's validator rejects and the enhanced scraper's accepts.
C28_Witness ==
    /\ Returned /\ Enriched
    /\ \E email \in UniqueEmails(enrichment_results) :
          /\ ~_validate_email(email)
          /\ CurlCffiScraper_validate_email(email)


InMakeRequest == search_pc = "_make_request"
AllFailed == \A k \in 1..Len(http_log) : http_log[k].status_code # 200
All429 == \A k \in 1..Len(http_log) : http_log[k].status_code = 429

MakeRequestBounded ==
    /\ Len(http_log) <= 3
    /\ InMakeRequest => AllFailed /\ Len(http_log) < 3
    /\ (search_pc \in {"page", "return", "done"} /\ http_log # <<>> /\ AllFailed)
          => response_data.kind = "None" /\ Len(http_log) = 3
    /\ (search_pc = "done" /\ pages_requested = <<0>> /\ http_log # <<>> /\ All429)
          => final_results = <<>>

\* C26: one call of _make_request issues at most retry_count (3) HTTP
\* requests, goes on to the next attempt only after a failed one, returns
\* None once all three attempts have failed (429, another status, or a
\* transport error), and always returns; search returns the empty list when
\* every attempt for the first page is answered 429.
C26_MakeRequestBounded ==
    /\ []MakeRequestBounded
    /\ InMakeRequest ~> ~InMakeRequest

\* The provider answered 429 three times for page 0 and search returned [].
C26_Witness ==
    /\ search_pc = "done"
    /\ pages_requested = <<0>>
    /\ Len(http_log) = 3 /\ All429
    /\ final_results = <<>>

\* ceil(m / 20), at most 6
MaxPageCount(m) ==
    LET ceil == CHOOSE n \in 0..m : 20 * n >= m /\ (n = 0 \/ 20 * (n - 1) < m)
    IN  IF ceil < 6 THEN ceil ELSE 6

\* number of results that page p contributed
ResultsFrom(p) == Cardinality({k \in 1..Len(all_results) : all_results[k] = p})

ProgressAt == {k \in 1..Len(emitted) : emitted[k].event = "search_progress"}
HandledBy(k) ==
    Cardinality({j \in 1..k : emitted[j].event \in {"enrichment_status", "error"}})

\* C30: in the enrichment phase the progress percentages are emitted in
\* non-decreasing order, and the processed count of each enrichment status
\* is the number of businesses whose enrichment has completed so far,
\* whatever the order in which the three workers finish.
C30_ProgressMonotone ==
    /\ \A j, k \in ProgressAt : j < k => emitted[j].value <= emitted[k].value
    /\ \A k \in 1..Len(emitted) :
          emitted[k].event = "enrichment_status" => emitted[k].value = HandledBy(k)

=============================================================================
